---- MODULE Spec2Model ----
(***************************************************************************)
(* Webotron: BucketManager (bucket.py) and the click commands that drive   *)
(* it (webotron.py).  The model covers the fingerprint computation         *)
(* gen_etag, the manifest loader, the per-file upload decision, the        *)
(* directory walk of sync and the bucket set-up command.                   *)
(*                                                                         *)
(* Strings the program builds or compares (ETags) are sequences of         *)
(* one-character strings, so that formatting and equality are computed.    *)
(* MD5 is replaced by a 16-bit rolling digest with the same interface      *)
(* (digest: raw bytes, hexdigest: lowercase hex).                          *)
(***************************************************************************)
EXTENDS Integers, Sequences, FiniteSets, TLC

(***************************************************************************)
(* Bounds of the model.  CHUNK_SIZE is the program's 8388608 scaled down.  *)
(***************************************************************************)
CHUNK_SIZE == 2

MaxLen == 3

MaxChunks == 3

MaxEnv == 2

(***************************************************************************)
(* Byte strings.                                                           *)
(***************************************************************************)
Byte == 0..1

Min(a, b) == IF a < b THEN a ELSE b

RECURSIVE SeqsUpTo(_, _)
SeqsUpTo(S, n) ==
    IF n = 0 THEN {<<>>}
    ELSE LET shorter == SeqsUpTo(S, n - 1)
         IN  shorter \cup {Append(s, x) : s \in {t \in shorter : Len(t) = n - 1}, x \in S}

\* every byte string gen_etag is exercised on in SpecEtag
HashInputs == SeqsUpTo(Byte, MaxChunks * CHUNK_SIZE)

RECURSIVE Zeros(_)
Zeros(n) == IF n = 0 THEN <<>> ELSE Append(Zeros(n - 1), 0)

\* contents of local files in Spec: zero fill of every length, and one byte
\* that is not zero
Contents == {Zeros(n) : n \in 0..MaxLen} \cup {<<1>>}

(***************************************************************************)
(* hashlib.md5 stand-in and string formatting.                             *)
(***************************************************************************)
HexChars == <<"0", "1", "2", "3", "4", "5", "6", "7",
              "8", "9", "a", "b", "c", "d", "e", "f">>

DecChars == <<"0", "1", "2", "3", "4", "5", "6", "7", "8", "9">>

RECURSIVE hash_update(_, _)
hash_update(h, data) ==
    IF data = <<>> THEN h
    ELSE hash_update((h * 31 + Head(data) + 1) % 65536, Tail(data))

\* hash_data(data): md5(); update(data)
hash_data(data) == hash_update(7, data)

\* h.digest(): the raw bytes of the digest
digest(h) == <<h \div 256, h % 256>>

HexByte(b) == <<HexChars[(b \div 16) + 1], HexChars[(b % 16) + 1]>>

\* h.hexdigest()
hexdigest(h) == HexByte(h \div 256) \o HexByte(h % 256)

RECURSIVE str_int(_)
str_int(n) ==
    IF n < 10 THEN <<DecChars[n + 1]>>
    ELSE str_int(n \div 10) \o <<DecChars[(n % 10) + 1]>>

Quote == <<"\"">>

\* Python's None as returned by gen_etag; equal to no string
None == <<"None">>

\* the '' default of manifest.get
EmptyStr == <<>>

(***************************************************************************)
(* BucketManager.gen_etag                                                  *)
(***************************************************************************)
\* f.read(CHUNK_SIZE) at offset pos
read(f, pos) == SubSeq(f, pos + 1, Min(pos + CHUNK_SIZE, Len(f)))

\* the loop run by count: one read more than the full chunks, so that a file of
\* a whole number of chunks gets a trailing empty chunk
RECURSIVE read_hashes_by_count(_, _)
read_hashes_by_count(f, pos) ==
    IF pos > Len(f) THEN <<>>
    ELSE <<hash_data(read(f, pos))>> \o read_hashes_by_count(f, pos + CHUNK_SIZE)

\* the while True loop: the hashes appended from offset pos on
RECURSIVE read_hashes(_, _)
read_hashes(f, pos) ==
    LET data == read(f, pos)
    IN  IF data = <<>> THEN <<>>
        ELSE <<hash_data(data)>> \o read_hashes(f, pos + Len(data))

\* reduce(lambda x, y: x + y, digests)
RECURSIVE reduce_digests(_)
reduce_digests(hashes) ==
    IF Len(hashes) = 1 THEN digest(hashes[1])
    ELSE reduce_digests(SubSeq(hashes, 1, Len(hashes) - 1)) \o digest(hashes[Len(hashes)])

\* gen_etag's tail returning '' instead of None when nothing was read
format_etag_empty_str(hashes) ==
    IF hashes = <<>> THEN EmptyStr
    ELSE IF Len(hashes) = 1 THEN Quote \o hexdigest(hashes[1]) \o Quote
    ELSE Quote \o hexdigest(hash_data(reduce_digests(hashes)))
               \o <<"-">> \o str_int(Len(hashes)) \o Quote

\* gen_etag after the loop: the three-way branch on the number of hashes
format_etag(hashes) ==
    IF hashes = <<>> THEN None
    ELSE IF Len(hashes) = 1 THEN Quote \o hexdigest(hashes[1]) \o Quote
    ELSE Quote \o hexdigest(hash_data(reduce_digests(hashes)))
               \o <<"-">> \o str_int(Len(hashes)) \o Quote

gen_etag(f) == format_etag(read_hashes(f, 0))

(***************************************************************************)
(* The store's side of bucket.upload_file(path, key, Config=transfer_config)*)
(***************************************************************************)
\* TransferConfig(multipart_chunksize=CHUNK_SIZE, multipart_threshold=CHUNK_SIZE)
transfer_config ==
    [multipart_chunksize |-> CHUNK_SIZE, multipart_threshold |-> CHUNK_SIZE]

\* part i of a multipart transfer of content f
Part(f, i) ==
    SubSeq(f, (i - 1) * transfer_config.multipart_chunksize + 1,
              Min(i * transfer_config.multipart_chunksize, Len(f)))

NumParts(f) ==
    (Len(f) + transfer_config.multipart_chunksize - 1)
        \div transfer_config.multipart_chunksize

RECURSIVE PartDigests(_, _)
PartDigests(f, n) ==
    IF n = 0 THEN <<>> ELSE PartDigests(f, n - 1) \o digest(hash_data(Part(f, n)))

\* the ETag the store records for a single PUT of f
PutEtag(f) == Quote \o hexdigest(hash_data(f)) \o Quote

\* the ETag the store records for a completed multipart upload of f
MultipartEtag(f) ==
    Quote \o hexdigest(hash_data(PartDigests(f, NumParts(f))))
          \o <<"-">> \o str_int(NumParts(f)) \o Quote

\* the transfer is multipart when the size reaches the threshold
StoreEtag(f) ==
    IF Len(f) >= transfer_config.multipart_threshold
    THEN MultipartEtag(f) ELSE PutEtag(f)

(***************************************************************************)
(* Names: buckets, the local tree under the sync root, object keys.        *)
(***************************************************************************)
\* bucket names this account may come to own
Buckets == {"b1", "b2", "b3"}

\* the buckets set up before the runs of Spec
SyncBuckets == {"b1"}

\* a bucket name owned by another account
TakenNames == {"taken"}

BucketNames == Buckets \cup TakenNames

\* regular files that may exist under the root, by key (path relative to root)
FileKeys == {"index.html", "d/notes"}

\* a key no local file has
RemoteOnlyKeys == {"old.css"}

Keys == FileKeys \cup RemoteOnlyKeys

Dirs == {"d"}

Root == "."

Parent(p) == IF p = "d/notes" THEN "d" ELSE Root

\* mimetypes.guess_type(key)[0]; None when the extension is unknown
guess_type(key) ==
    IF key = "index.html" THEN <<"text/html">>
    ELSE IF key = "old.css" THEN <<"text/css">>
    ELSE None

EmptyMap == [k \in {} |-> EmptyStr]

MapPut(m, k, v) == [x \in (DOMAIN m) \cup {k} |-> IF x = k THEN v ELSE m[x]]

MapDel(m, k) == [x \in (DOMAIN m) \ {k} |-> m[x]]

\* dict.get(key, default)
MapGet(m, k, default) == IF k \in DOMAIN m THEN m[k] ELSE default

SeqRange(s) == {s[i] : i \in 1..Len(s)}

NoCall == [key |-> "", etag |-> None, had |-> FALSE, entry |-> EmptyStr,
           issued |-> FALSE]

NoSetup == [name |-> "", owned |-> FALSE, code |-> "", returned |-> FALSE,
            raised |-> "", handle |-> "", policy |-> "skipped",
            website |-> "skipped"]

VARIABLES
    local,      \* the local tree: file key -> bytes, for the files that exist
    bucket,     \* the store: bucket name -> (key -> [etag, ctype])
    own,        \* the buckets this account owns
    site,       \* bucket name -> [policy, website]: what setup-bucket has put
    manifest,   \* BucketManager.manifest
    pc,         \* "idle", "listing" (in load_manifest), "walking" (in handle_directory)
    cur,        \* the bucket of the current or last sync
    listed,     \* the objects of cur at the start of the run
    toList,     \* keys of the listing no page has returned yet
    multi,      \* the listing took more than one page
    stack,      \* handle_directory frames: entries iterdir has yet to yield
    calls,      \* keys upload_file was called for in this run, in order
    writes,     \* keys transferred in this run, in order
    last,       \* the last upload_file call: key, etag, manifest entry, decision
    status,     \* how the last run ended
    prevOk,     \* bucket of the last completed run if nothing changed since
    repeatRun,  \* this run repeats a completed run with nothing changed between
    env,        \* changes made by the environment so far
    setupRes,   \* the last init_bucket call and what setup-bucket made of it
    etagIn,     \* SpecEtag: the bytes handed to gen_etag
    etagOut     \* SpecEtag: [n: chunks hashed, etag: the result]

vars == <<local, bucket, own, site, manifest, pc, cur, listed, toList, multi,
          stack, calls, writes, last, status, prevOk, repeatRun, env, setupRes,
          etagIn, etagOut>>

runVars == <<cur, listed, toList, multi, stack, calls, writes, last, repeatRun>>

setupVars == <<own, site, setupRes>>

etagVars == <<etagIn, etagOut>>

NoSite == [policy |-> FALSE, website |-> FALSE]

FullSite == [policy |-> TRUE, website |-> TRUE]

NoEtagOut == [done |-> FALSE, n |-> 0, etag |-> None]

\* a new process with nothing stored anywhere
InitProgram ==
    /\ local = EmptyMap
    /\ bucket = [b \in Buckets |-> EmptyMap]
    /\ manifest = EmptyMap
    /\ pc = "idle"
    /\ cur = ""
    /\ listed = EmptyMap
    /\ toList = {}
    /\ multi = FALSE
    /\ stack = <<>>
    /\ calls = <<>>
    /\ writes = <<>>
    /\ last = NoCall
    /\ status = "none"
    /\ prevOk = ""
    /\ repeatRun = FALSE
    /\ env = 0
    /\ setupRes = NoSetup

\* Spec starts with the buckets of SyncBuckets set up
Init ==
    /\ InitProgram
    /\ own = SyncBuckets
    /\ site = [b \in BucketNames |-> IF b \in SyncBuckets THEN FullSite ELSE NoSite]
    /\ etagIn = <<>>
    /\ etagOut = NoEtagOut

(***************************************************************************)
(* The environment: edits of the local tree and other writers to the       *)
(* store.  They act between runs only.                                     *)
(***************************************************************************)
\* the record of the last run is dropped
ForgetRun ==
    /\ cur' = ""
    /\ listed' = EmptyMap
    /\ toList' = {}
    /\ multi' = FALSE
    /\ stack' = <<>>
    /\ calls' = <<>>
    /\ writes' = <<>>
    /\ last' = NoCall
    /\ status' = "none"
    /\ repeatRun' = FALSE

EnvStep ==
    /\ pc = "idle"
    /\ env < MaxEnv
    /\ env' = env + 1
    /\ prevOk' = ""
    /\ ForgetRun
    /\ UNCHANGED <<manifest, pc, setupVars, etagVars>>

LocalWrite(k, c) ==
    /\ EnvStep
    /\ k \in DOMAIN local => local[k] # c
    /\ local' = MapPut(local, k, c)
    /\ UNCHANGED bucket

LocalDelete(k) ==
    /\ EnvStep
    /\ k \in DOMAIN local
    /\ local' = MapDel(local, k)
    /\ UNCHANGED bucket

\* another client stores c under k with a single PUT
RemotePut(b, k, c) ==
    /\ EnvStep
    /\ b \in own
    /\ bucket' = [bucket EXCEPT ![b] =
                    MapPut(@, k, [etag |-> PutEtag(c), ctype |-> <<"binary/octet-stream">>])]
    /\ bucket' # bucket
    /\ UNCHANGED local

RemoteDelete(b, k) ==
    /\ EnvStep
    /\ b \in own
    /\ k \in DOMAIN bucket[b]
    /\ bucket' = [bucket EXCEPT ![b] = MapDel(@, k)]
    /\ UNCHANGED local

(***************************************************************************)
(* webotron.cli: a new process builds a new BucketManager.                 *)
(***************************************************************************)
\* BucketManager.__init__; the record of the last run goes with the old process
NewManager ==
    /\ pc = "idle"
    /\ manifest' = EmptyMap
    /\ ForgetRun
    /\ UNCHANGED <<local, bucket, pc, prevOk, env, setupVars, etagVars>>

(***************************************************************************)
(* BucketManager.sync                                                      *)
(***************************************************************************)
\* what list_objects_v2 reports of the objects objs: key -> ETag
Listing(objs) == [k \in DOMAIN objs |-> objs[k].etag]

\* the entries iterdir yields for a directory of the local tree
iterdir(target) ==
    {k \in DOMAIN local : Parent(k) = target} \cup {d \in Dirs : Parent(d) = target}

\* sync up to the first page of load_manifest
SyncStart(b) ==
    /\ pc = "idle"
    /\ pc' = "listing"
    /\ cur' = b
    /\ listed' = IF b \in own THEN bucket[b] ELSE EmptyMap
    /\ toList' = IF b \in own THEN DOMAIN bucket[b] ELSE {}
    /\ multi' = FALSE
    /\ stack' = <<>>
    /\ calls' = <<>>
    /\ writes' = <<>>
    /\ last' = NoCall
    /\ status' = "running"
    /\ repeatRun' = (prevOk = b)
    /\ prevOk' = ""
    /\ UNCHANGED <<local, bucket, manifest, env, setupVars, etagVars>>

\* a page loaded with setdefault: an entry already in the manifest is kept
load_page_keep_old(m, page) ==
    [k \in (DOMAIN m) \cup (DOMAIN page) |-> IF k \in DOMAIN m THEN m[k] ELSE page[k]]

\* one page of the paginator: for obj in page.get('Contents', []):
\*     self.manifest[obj['Key']] = obj['ETag']
load_page(m, page) ==
    [k \in (DOMAIN m) \cup (DOMAIN page) |-> IF k \in DOMAIN page THEN page[k] ELSE m[k]]

\* load_manifest takes a page holding the keys S; after the final page sync
\* resolves the root and enters handle_directory(root)
ListPage(S, final) ==
    /\ pc = "listing"
    /\ cur \in own
    /\ S \subseteq toList
    /\ final => S = toList
    /\ manifest' = load_page(manifest, [k \in S |-> Listing(listed)[k]])
    /\ toList' = toList \ S
    /\ multi' = (multi \/ ~final)
    /\ IF final
       THEN /\ pc' = "walking"
            /\ stack' = <<iterdir(Root)>>
       ELSE UNCHANGED <<pc, stack>>
    /\ UNCHANGED <<local, bucket, cur, listed, calls, writes, last, status,
                   prevOk, repeatRun, env, setupVars, etagVars>>

\* the error of the paginator noted and the walk entered all the same
ListFail_continue ==
    /\ pc = "listing"
    /\ pc' = "walking"
    /\ stack' = <<iterdir(Root)>>
    /\ status' = "listing_error"
    /\ UNCHANGED <<local, bucket, manifest, prevOk, env, cur, listed, toList,
                   multi, calls, writes, last, repeatRun, setupVars, etagVars>>

\* the paginator raises on a page: the error leaves load_manifest and sync
ListFail ==
    /\ pc = "listing"
    /\ pc' = "idle"
    /\ status' = "listing_error"
    /\ UNCHANGED <<local, bucket, manifest, prevOk, env, runVars,
                   setupVars, etagVars>>

\* handle_directory: iterdir yields a directory, handle_directory(p) is entered
WalkDir(p) ==
    /\ pc = "walking"
    /\ stack # <<>>
    /\ p \in Head(stack)
    /\ p \in Dirs
    /\ stack' = <<iterdir(p)>> \o <<Head(stack) \ {p}>> \o Tail(stack)
    /\ UNCHANGED <<local, bucket, manifest, pc, cur, listed, toList, multi, calls,
                   writes, last, status, prevOk, repeatRun, env,
                   setupVars, etagVars>>

\* the exception caught in the loop: the failure is noted, the walk goes on
propagate_continue(st, p) ==
    /\ pc' = pc
    /\ status' = st
    /\ stack' = <<Head(stack) \ {p}>> \o Tail(stack)

\* an exception raised in upload_file for entry p leaves handle_directory and
\* sync: nothing catches it
propagate(st, p) ==
    /\ pc' = "idle"
    /\ status' = st
    /\ UNCHANGED stack

\* mimetypes.guess_type(key)[0] or 'text/html'
content_type(key) ==
    IF guess_type(key) = None THEN <<"text/html">> ELSE guess_type(key)

\* the early return written self.manifest.get(key) == etag
up_to_date_no_default(m, key, etag) == MapGet(m, key, None) = etag

\* no early return: every file is transferred
up_to_date_never(m, key, etag) == FALSE

\* upload_file's early return: self.manifest.get(key, '') == etag
up_to_date(m, key, etag) == MapGet(m, key, EmptyStr) = etag

\* handle_directory: iterdir yields a regular file, upload_file(bucket, p, key)
\* runs: readable says whether open(path) succeeds, sent whether the transfer does
WalkFile(p, readable, sent) ==
    /\ pc = "walking"
    /\ stack # <<>>
    /\ p \in Head(stack)
    /\ p \in DOMAIN local
    /\ calls' = Append(calls, p)
    /\ IF ~readable
       THEN \* gen_etag raises
            /\ propagate("read_error", p)
            /\ last' = [key |-> p, etag |-> None, had |-> p \in DOMAIN manifest,
                        entry |-> MapGet(manifest, p, EmptyStr), issued |-> FALSE]
            /\ UNCHANGED <<bucket, writes>>
       ELSE LET etag == gen_etag(local[p])
                skip == up_to_date(manifest, p, etag)
            IN  /\ last' = [key |-> p, etag |-> etag, had |-> p \in DOMAIN manifest,
                            entry |-> MapGet(manifest, p, EmptyStr), issued |-> ~skip]
                /\ IF skip
                   THEN /\ stack' = <<Head(stack) \ {p}>> \o Tail(stack)
                        /\ UNCHANGED <<bucket, writes, pc, status>>
                   ELSE IF sent
                   THEN /\ bucket' = [bucket EXCEPT ![cur] =
                                MapPut(@, p, [etag |-> StoreEtag(local[p]),
                                              ctype |-> content_type(p)])]
                        /\ writes' = Append(writes, p)
                        /\ stack' = <<Head(stack) \ {p}>> \o Tail(stack)
                        /\ UNCHANGED <<pc, status>>
                   ELSE \* bucket.upload_file raises
                        /\ propagate("upload_error", p)
                        /\ UNCHANGED <<bucket, writes>>
    /\ UNCHANGED <<local, manifest, cur, listed, toList, multi, prevOk, repeatRun,
                   env, setupVars, etagVars>>

\* handle_directory(p) returns to the loop of its caller
WalkReturn ==
    /\ pc = "walking"
    /\ Len(stack) > 1
    /\ Head(stack) = {}
    /\ stack' = Tail(stack)
    /\ UNCHANGED <<local, bucket, manifest, pc, cur, listed, toList, multi, calls,
                   writes, last, status, prevOk, repeatRun, env,
                   setupVars, etagVars>>

\* handle_directory(root) returns and so does sync; the sync command then
\* prints get_bucket_url, whose look-up of the region may fail
SyncReturn(urlOk) ==
    /\ pc = "walking"
    /\ Len(stack) = 1
    /\ Head(stack) = {}
    /\ stack' = <<>>
    /\ pc' = "idle"
    /\ status' = IF urlOk THEN "ok" ELSE "url_error"
    /\ prevOk' = cur
    /\ UNCHANGED <<local, bucket, manifest, cur, listed, toList, multi, calls,
                   writes, last, repeatRun, env, setupVars, etagVars>>

Next ==
    \/ \E k \in FileKeys, c \in Contents : LocalWrite(k, c)
    \/ \E k \in FileKeys : LocalDelete(k)
    \/ \E b \in SyncBuckets, k \in Keys, c \in Contents : RemotePut(b, k, c)
    \/ \E b \in SyncBuckets, k \in Keys : RemoteDelete(b, k)
    \/ NewManager
    \/ \E b \in SyncBuckets \cup TakenNames : SyncStart(b)
    \/ \E S \in SUBSET Keys, final \in BOOLEAN : ListPage(S, final)
    \/ ListFail
    \/ \E p \in Dirs : WalkDir(p)
    \/ \E p \in FileKeys, readable \in BOOLEAN, sent \in BOOLEAN : WalkFile(p, readable, sent)
    \/ WalkReturn
    \/ \E urlOk \in BOOLEAN : SyncReturn(urlOk)

Spec == Init /\ [][Next]_vars

(***************************************************************************)
(* The setup-bucket command: init_bucket, set_policy, configure_website.   *)
(* SpecSetup starts with no bucket owned.                                  *)
(***************************************************************************)
\* the answers the provider can give to create_bucket(Bucket=name)
CreateCodes(name) ==
    IF name \in own THEN {"ok", "BucketAlreadyOwnedByYou", "AccessDenied"}
    ELSE IF name \in TakenNames THEN {"BucketAlreadyExists", "AccessDenied"}
    ELSE {"ok", "AccessDenied"}

\* init_bucket with "BucketAlreadyExists" accepted as well
init_bucket_any_exists(bucket_name, code) ==
    IF code \in {"ok", "BucketAlreadyOwnedByYou", "BucketAlreadyExists"}
    THEN [returned |-> TRUE, handle |-> bucket_name, raised |-> ""]
    ELSE [returned |-> FALSE, handle |-> "", raised |-> code]

\* BucketManager.init_bucket, given the provider's answer to create_bucket
init_bucket(bucket_name, code) ==
    IF code = "ok"
    THEN [returned |-> TRUE, handle |-> bucket_name, raised |-> ""]
    ELSE IF code = "BucketAlreadyOwnedByYou"
    THEN [returned |-> TRUE, handle |-> bucket_name, raised |-> ""]
    ELSE [returned |-> FALSE, handle |-> "", raised |-> code]

\* webotron.setup_bucket: polOk and webOk say whether the two puts succeed
SetupBucket(name, code, polOk, webOk) ==
    /\ pc = "idle"
    /\ code \in CreateCodes(name)
    /\ LET r == init_bucket(name, code)
           pol == IF ~r.returned THEN "skipped" ELSE IF polOk THEN "put" ELSE "failed"
           web == IF pol # "put" THEN "skipped" ELSE IF webOk THEN "put" ELSE "failed"
       IN  /\ own' = IF code = "ok" THEN own \cup {name} ELSE own
           /\ site' = [site EXCEPT ![name] =
                         [policy |-> @.policy \/ pol = "put",
                          website |-> @.website \/ web = "put"]]
           /\ setupRes' = [name |-> name, owned |-> name \in own, code |-> code,
                           returned |-> r.returned, raised |-> r.raised,
                           handle |-> r.handle, policy |-> pol, website |-> web]
    /\ UNCHANGED <<local, bucket, manifest, pc, status, prevOk, env, runVars, etagVars>>

InitSetup ==
    /\ InitProgram
    /\ own = {}
    /\ site = [b \in BucketNames |-> NoSite]
    /\ etagIn = <<>>
    /\ etagOut = NoEtagOut

NextSetup ==
    \E name \in BucketNames,
       code \in {"ok", "BucketAlreadyOwnedByYou", "BucketAlreadyExists", "AccessDenied"},
       polOk \in BOOLEAN, webOk \in BOOLEAN : SetupBucket(name, code, polOk, webOk)

SpecSetup == InitSetup /\ [][NextSetup]_vars

(***************************************************************************)
(* gen_etag on its own: SpecEtag applies it to every input of HashInputs.  *)
(***************************************************************************)
GenEtag ==
    /\ ~etagOut.done
    /\ etagOut' = [done |-> TRUE, n |-> Len(read_hashes(etagIn, 0)),
                   etag |-> gen_etag(etagIn)]
    /\ UNCHANGED <<etagIn, local, bucket, manifest, pc, status, prevOk, env,
                   runVars, setupVars>>

InitEtag ==
    /\ InitProgram
    /\ own = SyncBuckets
    /\ site = [b \in BucketNames |-> IF b \in SyncBuckets THEN FullSite ELSE NoSite]
    /\ etagIn \in HashInputs
    /\ etagOut = NoEtagOut

NextEtag == GenEtag

SpecEtag == InitEtag /\ [][NextEtag]_vars

(***************************************************************************)
(* Properties.                                                             *)
(***************************************************************************)
Failed == status \in {"read_error", "upload_error"}

\* upload_file was called in the run on record and got past gen_etag
Decided == last.key # "" /\ status # "read_error"

\* the manifest has no entry for key k equal to the fingerprint of local file k
Changed(k) ==
    \/ k \notin DOMAIN manifest
    \/ manifest[k] # gen_etag(local[k])

\* C1: a sync run that repeats a completed run, with neither the local files
\* nor the bucket changed in between, uploads no file.
C1_SecondRunUploadsNothing == repeatRun => writes = <<>> /\ ~last.issued

\* C2: upload_file issues the transfer exactly when the manifest has no entry
\* for the key or the entry differs from the fingerprint of the file.
C2_DecisionRule ==
    Decided => (last.issued <=> (~last.had \/ last.entry # last.etag))

C2_Witness ==
    /\ Decided
    /\ last.had
    /\ last.entry = last.etag
    /\ ~last.issued
    /\ status = "running"

\* chunk i of f for chunk size c
LawChunk(f, c, i) == SubSeq(f, (i - 1) * c + 1, Min(i * c, Len(f)))

RECURSIVE LawDigests(_, _, _)
LawDigests(f, c, n) ==
    IF n = 0 THEN <<>> ELSE LawDigests(f, c, n - 1) \o digest(hash_data(LawChunk(f, c, n)))

\* C3: a non-empty file of L bytes is hashed in ceil(L / CHUNK_SIZE) chunks; one
\* chunk gives the quoted hex digest of the content, n > 1 chunks give the
\* quoted hex digest of the concatenated raw chunk digests followed by -n.
C3_FingerprintLaw ==
    (etagOut.done /\ etagIn # <<>>) =>
        LET n == (Len(etagIn) + CHUNK_SIZE - 1) \div CHUNK_SIZE
        IN  /\ etagOut.n = n
            /\ n = 1 => etagOut.etag = Quote \o hexdigest(hash_data(etagIn)) \o Quote
            /\ n > 1 => etagOut.etag =
                   Quote \o hexdigest(hash_data(LawDigests(etagIn, CHUNK_SIZE, n)))
                         \o <<"-">> \o str_int(n) \o Quote

C3_Witness ==
    /\ etagOut.done
    /\ Len(etagIn) = 2 * CHUNK_SIZE
    /\ etagOut.n = 2

\* C4: for an empty file gen_etag gives no fingerprint and upload_file issues
\* the transfer, whatever the manifest holds for the key.
C4_EmptyFileAlwaysUploaded ==
    (Decided /\ local[last.key] = <<>>) => last.etag = None /\ last.issued

C4_Witness ==
    /\ Decided
    /\ local[last.key] = <<>>
    /\ last.had
    /\ last.issued
    /\ last.key \in SeqRange(writes)

\* C5: once load_manifest has returned, the manifest maps every key of the
\* listing to the fingerprint the store reported for it.
C5_ManifestComplete ==
    pc = "walking" =>
        \A k \in DOMAIN listed : k \in DOMAIN manifest /\ manifest[k] = listed[k].etag

C5_Witness ==
    /\ pc = "walking"
    /\ multi
    /\ Cardinality(DOMAIN listed) >= 2

\* C6: while files are processed the manifest is exactly the listing of this
\* run's bucket at the start of the run.
C6_ManifestIsTheListing == pc = "walking" => manifest = Listing(listed)

\* C7: a run whose listing failed is over and has hashed and uploaded nothing.
C7_ListingFailureFirst ==
    status = "listing_error" =>
        /\ pc = "idle"
        /\ calls = <<>>
        /\ writes = <<>>
        /\ last = NoCall
        /\ cur \in own => bucket[cur] = listed

C7_Witness ==
    /\ status = "listing_error"
    /\ multi
    /\ DOMAIN local # {}

\* C8: a run in which one file failed has uploaded every other local file that
\* differs from the manifest.
C8_UploadedAllItCould ==
    Failed =>
        \A k \in (DOMAIN local) \ {last.key} : Changed(k) => k \in SeqRange(writes)

\* C8 as amended: the run ends at the failing file; every file visited before
\* it that differs from the manifest has been uploaded, the failing file and
\* the files not visited have not.
C8_AbortsAtFailure ==
    Failed =>
        /\ pc = "idle"
        /\ calls # <<>>
        /\ last.key = calls[Len(calls)]
        /\ \A i \in 1..(Len(calls) - 1) : Changed(calls[i]) => calls[i] \in SeqRange(writes)
        /\ \A k \in DOMAIN local :
               (k = last.key \/ k \notin SeqRange(calls)) => k \notin SeqRange(writes)

C8_Witness ==
    /\ Failed
    /\ Len(calls) = 2
    /\ Len(writes) = 1

\* C9: init_bucket returns the handle of the named bucket exactly when the
\* provider's create call succeeds or fails with BucketAlreadyOwnedByYou; any
\* other error is raised.  So it returns for an owned name the provider
\* answers for in either way.
C9_InitBucketIdempotent ==
    setupRes.name # "" =>
        /\ setupRes.returned <=> setupRes.code \in {"ok", "BucketAlreadyOwnedByYou"}
        /\ setupRes.returned => setupRes.handle = setupRes.name /\ setupRes.raised = ""
        /\ ~setupRes.returned => setupRes.raised = setupRes.code
        /\ setupRes.returned => setupRes.name \in own

C9_Witness ==
    /\ setupRes.owned
    /\ setupRes.code = "BucketAlreadyOwnedByYou"
    /\ setupRes.returned
    /\ setupRes.handle = setupRes.name

====
